---- MODULE Spec2Model ----
(***************************************************************************)
(* Model of src/analysis/compression_analysis.py: the batch loop of main() *)
(* and the metric derivations of process_symbol().                         *)
(*                                                                         *)
(* Numbers are exact rationals (the source computes in float64; rounding   *)
(* is not modelled).  A cell of a pandas column is one of                  *)
(*   num  a finite number n/d in lowest terms, d > 0                       *)
(*   nan  the float missing value (shift, diff and rolling warm-up)        *)
(*   NA   pandas.NA, which Series.replace(0, pd.NA) writes                 *)
(*   inf  the float result of dividing a nonzero number by zero            *)
(***************************************************************************)
EXTENDS Integers, Sequences, FiniteSets

VARIABLES dataDir, outputDir, queue, pc, raised

vars == <<dataDir, outputDir, queue, pc, raised>>

\* ------------------------------------------------------------------ bounds

\* Longest input table of the metric specification.
MaxLen == 21

\* ------------------------------------------------------------- cell values

RECURSIVE GCD(_, _)
GCD(a, b) == IF b = 0 THEN a ELSE GCD(b, a % b)

AbsInt(x) == IF x < 0 THEN -x ELSE x

\* n/d (d # 0) in lowest terms with a positive denominator.
Num(n, d) ==
    LET g == GCD(AbsInt(n), AbsInt(d))
        s == IF d < 0 THEN -1 ELSE 1
    IN  [k |-> "num", n |-> (s * n) \div g, d |-> (s * d) \div g]

Int2Num(x) == [k |-> "num", n |-> x, d |-> 1]
NaN == [k |-> "nan", n |-> 0, d |-> 1]
NA == [k |-> "NA", n |-> 0, d |-> 1]
Inf(sign) == [k |-> "inf", n |-> sign, d |-> 1]

IsNum(v) == v.k = "num"
IsMissing(v) == v.k \in {"nan", "NA"}
IsZero(v) == v.k = "num" /\ v.n = 0

\* a <= b for two finite numbers.
Leq(a, b) == a.n * b.d <= b.n * a.d

\* What an arithmetic operation gives when an operand is not a finite number:
\* pandas.NA absorbs everything, then nan.
Propagate(a, b) ==
    IF a.k = "NA" \/ b.k = "NA" THEN NA
    ELSE IF a.k = "nan" \/ b.k = "nan" THEN NaN
    ELSE IF a.k = "inf" THEN a ELSE b

VAdd(a, b) ==
    IF IsNum(a) /\ IsNum(b) THEN Num(a.n * b.d + b.n * a.d, a.d * b.d)
    ELSE Propagate(a, b)

VSub(a, b) ==
    IF IsNum(a) /\ IsNum(b) THEN Num(a.n * b.d - b.n * a.d, a.d * b.d)
    ELSE Propagate(a, b)

VAbs(a) == IF IsNum(a) THEN Num(AbsInt(a.n), a.d) ELSE a

\* Float division: x/0 is inf with the sign of x, 0/0 is nan.
VDiv(a, b) ==
    IF IsNum(a) /\ IsNum(b)
    THEN IF b.n # 0 THEN Num(a.n * b.d, a.d * b.n)
         ELSE IF a.n = 0 THEN NaN
         ELSE Inf(IF a.n > 0 THEN 1 ELSE -1)
    ELSE Propagate(a, b)

\* ------------------------------------------------------ Series operations

Idx(s) == 1 .. Len(s)

\* F applied to the value of a series expression, which is evaluated once.
On1(F(_), a) == CHOOSE r \in {F(x) : x \in {a}} : TRUE
On2(F(_, _), a, b) == CHOOSE r \in {F(x, y) : x \in {a}, y \in {b}} : TRUE

\* Series.shift(periods): the first `periods` positions become nan.
Shift(s, periods) ==
    LET F(x) == [i \in Idx(x) |-> IF i <= periods THEN NaN ELSE x[i - periods]]
    IN  On1(F, s)

SeriesSub(a, b) ==
    LET F(x, y) == [i \in Idx(x) |-> VSub(x[i], y[i])]
    IN  On2(F, a, b)

SeriesDiv(a, b) ==
    LET F(x, y) == [i \in Idx(x) |-> VDiv(x[i], y[i])]
    IN  On2(F, a, b)

SeriesAbs(a) ==
    LET F(x) == [i \in Idx(x) |-> VAbs(x[i])]
    IN  On1(F, a)

\* Series.diff(): s - s.shift(1).
Diff(s) == SeriesSub(s, Shift(s, 1))

\* min() and max() of a row of two cells with skipna=True: a missing cell is
\* skipped and the other cell is the result.
SkipNaMin(u, v) ==
    IF IsMissing(u) THEN (IF IsMissing(v) THEN NaN ELSE v)
    ELSE IF IsMissing(v) THEN u
    ELSE IF Leq(u, v) THEN u ELSE v

SkipNaMax(u, v) ==
    IF IsMissing(u) THEN (IF IsMissing(v) THEN NaN ELSE v)
    ELSE IF IsMissing(v) THEN u
    ELSE IF Leq(u, v) THEN v ELSE u

\* pd.concat([a, b], axis=1).min(axis=1).
RowMin(a, b) ==
    LET F(x, y) == [i \in Idx(x) |-> SkipNaMin(x[i], y[i])]
    IN  On2(F, a, b)

\* pd.concat([a, b], axis=1).max(axis=1).
RowMax(a, b) ==
    LET F(x, y) == [i \in Idx(x) |-> SkipNaMax(x[i], y[i])]
    IN  On2(F, a, b)

\* Mutant of ClipLower0: the clip is left out.
ClipLower0_NoClip(s) == s

\* Series.clip(lower=0): missing cells stay missing.
ClipLower0(s) ==
    LET F(x) == [i \in Idx(x) |->
                    IF IsNum(x[i]) /\ x[i].n < 0 THEN Int2Num(0) ELSE x[i]]
    IN  On1(F, s)

\* Series.replace(0, pd.NA).
Replace0(s) ==
    LET F(x) == [i \in Idx(x) |-> IF IsZero(x[i]) THEN NA ELSE x[i]]
    IN  On1(F, s)

\* The running sums of a series, a cell that is not a finite number adding
\* nothing: the accumulator the rolling kernels slide along the series.
RECURSIVE RunningSums(_, _)
RunningSums(s, n) ==
    IF n = 0 THEN <<>>
    ELSE LET Step(sums) ==
                Append(sums,
                       VAdd(IF n = 1 THEN Int2Num(0) ELSE sums[n - 1],
                            IF IsNum(s[n]) THEN s[n] ELSE Int2Num(0)))
         IN  On1(Step, RunningSums(s, n - 1))

\* The sum of the cells from .. to of the series whose running sums are given.
WindowSum(sums, from, to) ==
    IF from = 1 THEN sums[to] ELSE VSub(sums[to], sums[from - 1])

WindowAllNum(s, from, to) == \A j \in from .. to : IsNum(s[j])

\* Series.rolling(window).sum(): min_periods = window, so the result is nan
\* until `window` cells are available and wherever the window holds a
\* cell that is not a finite number.
RollingSum(s, window) ==
    LET F(x, sums) ==
            [i \in Idx(x) |->
                IF i >= window /\ WindowAllNum(x, i - window + 1, i)
                THEN WindowSum(sums, i - window + 1, i)
                ELSE NaN]
        G(x) == On2(F, x, RunningSums(x, Len(x)))
    IN  On1(G, s)

\* Mutant of RollingMean: min_periods=1, the mean of the cells available.
RollingMean_MinPeriods1(s, window) ==
    LET First(i) == IF i >= window THEN i - window + 1 ELSE 1
        F(x, sums) ==
            [i \in Idx(x) |->
                IF WindowAllNum(x, First(i), i)
                THEN VDiv(WindowSum(sums, First(i), i), Int2Num(i - First(i) + 1))
                ELSE NaN]
        G(x) == On2(F, x, RunningSums(x, Len(x)))
    IN  On1(G, s)

\* Mutant of RollingMean: the window ends one row after the current one.
RollingMean_LookAhead(s, window) ==
    LET F(x, sums) ==
            [i \in Idx(x) |->
                IF i + 1 <= Len(x) /\ i + 1 >= window
                   /\ WindowAllNum(x, i - window + 2, i + 1)
                THEN VDiv(WindowSum(sums, i - window + 2, i + 1), Int2Num(window))
                ELSE NaN]
        G(x) == On2(F, x, RunningSums(x, Len(x)))
    IN  On1(G, s)

\* Series.rolling(window).mean().
RollingMean(s, window) ==
    LET F(x, sums) ==
            [i \in Idx(x) |->
                IF i >= window /\ WindowAllNum(x, i - window + 1, i)
                THEN VDiv(WindowSum(sums, i - window + 1, i), Int2Num(window))
                ELSE NaN]
        G(x) == On2(F, x, RunningSums(x, Len(x)))
    IN  On1(G, s)

\* ------------------------------------------------------------ the metrics

WINDOWS == {5, 10, 20}

compute_overlap_ratio(current_high, current_low) ==
    LET previous_high == Shift(current_high, 1)
        previous_low == Shift(current_low, 1)
        overlap_high == RowMin(current_high, previous_high)
        overlap_low == RowMax(current_low, previous_low)
        overlap_length == ClipLower0(SeriesSub(overlap_high, overlap_low))
        today_range == Replace0(SeriesSub(current_high, current_low))
    IN  SeriesDiv(overlap_length, today_range)

\* Mutant of compute_directional_efficiency: close.shift(window).
compute_directional_efficiency_ShiftWindow(close, window) ==
    LET net_displacement == SeriesAbs(SeriesSub(close, Shift(close, window)))
        total_movement == RollingSum(SeriesAbs(Diff(close)), window - 1)
    IN  SeriesDiv(net_displacement, Replace0(total_movement))

\* Mutant of compute_directional_efficiency: rolling(window).
compute_directional_efficiency_RollingWindow(close, window) ==
    LET net_displacement == SeriesAbs(SeriesSub(close, Shift(close, window - 1)))
        total_movement == RollingSum(SeriesAbs(Diff(close)), window)
    IN  SeriesDiv(net_displacement, Replace0(total_movement))

compute_directional_efficiency(close, window) ==
    LET net_displacement == SeriesAbs(SeriesSub(close, Shift(close, window - 1)))
        total_movement == RollingSum(SeriesAbs(Diff(close)), window - 1)
    IN  SeriesDiv(net_displacement, Replace0(total_movement))

\* ----------------------------------------------------------- process_symbol

\* A file of the data directory is [readable, columns, rows]: whether
\* pd.read_csv can read it, the column names of its header, and its rows.
\* Date cells are day numbers, which pd.to_datetime turns into the timestamps
\* rows are ordered by; High, Low and Close cells are integers.
NumericColumns == {"High", "Low", "Close"}

\* pd.read_csv: a frame, one series per column of the header.
read_csv(file) ==
    [c \in file.columns |->
        [i \in Idx(file.rows) |->
            IF c \in NumericColumns THEN Int2Num(file.rows[i][c])
            ELSE file.rows[i][c]]]

\* Mutant of SortValues: ascending=False.
SortValues_Descending(frame) ==
    LET Later(date) ==
            [j \in Idx(date) |->
                Cardinality({m \in Idx(date) : date[m] > date[j]})]
        Order(later) ==
            [i \in Idx(later) |-> CHOOSE j \in Idx(later) : later[j] = i - 1]
        F(data, order) ==
            [c \in DOMAIN data |-> [i \in Idx(order) |-> data[c][order[i]]]]
    IN  On2(F, frame, On1(Order, On1(Later, frame.Date)))

\* DataFrame.sort_values("Date").reset_index(drop=True) on rows with
\* pairwise distinct dates: position i holds the row with i-1 earlier rows.
SortValues(frame) ==
    LET Earlier(date) ==
            [j \in Idx(date) |->
                Cardinality({m \in Idx(date) : date[m] < date[j]})]
        Order(earlier) ==
            [i \in Idx(earlier) |-> CHOOSE j \in Idx(earlier) : earlier[j] = i - 1]
        F(data, order) ==
            [c \in DOMAIN data |-> [i \in Idx(order) |-> data[c][order[i]]]]
    IN  On2(F, frame, On1(Order, On1(Earlier, frame.Date)))

\* data[name] = series, for every (name, series) of `new`.
AddColumns(data, new) ==
    [c \in DOMAIN data \cup DOMAIN new |->
        IF c \in DOMAIN new THEN new[c] ELSE data[c]]

RangeMAName(window) ==
    CASE window = 5 -> "Range_MA_5" [] window = 10 -> "Range_MA_10"
      [] window = 20 -> "Range_MA_20"

OverlapMAName(window) ==
    CASE window = 5 -> "Overlap_Ratio_MA_5" [] window = 10 -> "Overlap_Ratio_MA_10"

EfficiencyName(window) ==
    CASE window = 5 -> "DirectionalEfficiency_5"
      [] window = 10 -> "DirectionalEfficiency_10"
      [] window = 20 -> "DirectionalEfficiency_20"

\* Line 60.
AddRange(data) == AddColumns(data, [Range |-> SeriesSub(data.High, data.Low)])

\* Lines 63-64.
AddRangeMA(data) ==
    AddColumns(data,
        [c \in {RangeMAName(w) : w \in WINDOWS} |->
            RollingMean(data.Range, CHOOSE w \in WINDOWS : RangeMAName(w) = c)])

\* Lines 67-72.
AddRangeCompression(data) ==
    AddColumns(data,
        [RangeCompression_5_vs_20 |->
            SeriesDiv(data.Range_MA_5, Replace0(data.Range_MA_20)),
         RangeCompression_10_vs_20 |->
            SeriesDiv(data.Range_MA_10, Replace0(data.Range_MA_20))])

\* Line 75.
AddOverlapRatio(data) ==
    AddColumns(data, [Overlap_Ratio |-> compute_overlap_ratio(data.High, data.Low)])

\* Lines 76-77.
AddOverlapRatioMA(data) ==
    AddColumns(data,
        [c \in {OverlapMAName(w) : w \in {5, 10}} |->
            RollingMean(data.Overlap_Ratio,
                        CHOOSE w \in {5, 10} : OverlapMAName(w) = c)])

\* Lines 80-83.
AddDirectionalEfficiency(data) ==
    AddColumns(data,
        [c \in {EfficiencyName(w) : w \in WINDOWS} |->
            compute_directional_efficiency(data.Close,
                        CHOOSE w \in WINDOWS : EfficiencyName(w) = c)])

cols_to_keep ==
    {"Symbol", "Date", "Range", "Range_MA_5", "Range_MA_10", "Range_MA_20",
     "RangeCompression_5_vs_20", "RangeCompression_10_vs_20",
     "Overlap_Ratio", "Overlap_Ratio_MA_5", "Overlap_Ratio_MA_10",
     "DirectionalEfficiency_5", "DirectionalEfficiency_10",
     "DirectionalEfficiency_20"}

\* Line 103.
KeepColumns(data) == [c \in cols_to_keep |-> data[c]]

\* Whether a series has the object dtype because it holds pandas.NA.
HoldsNA(s) == \E i \in Idx(s) : s[i].k = "NA"

\* The exceptions process_symbol(csv_path) can raise on a file: read_csv's on
\* a file it cannot read, KeyError on the first column the header lacks, and
\* DataError at line 77.  There Series.rolling meets an object column when the
\* replace of line 32 has written pandas.NA for a zero range; it raises where
\* the rolling kernel cannot coerce the column to float64 and treats the cell
\* as missing where it can, so both outcomes are kept.
process_symbol_raises(file) ==
    IF ~file.readable THEN {"OSError"}
    ELSE IF ~({"Date", "High", "Low"} \subseteq file.columns) THEN {"KeyError"}
    ELSE LET data == SortValues(read_csv(file))
         IN  (IF HoldsNA(compute_overlap_ratio(data.High, data.Low))
              THEN {"DataError"} ELSE {})
             \cup (IF {"Close", "Symbol"} \subseteq file.columns
                   THEN {} ELSE {"KeyError"})

\* The frames process_symbol(csv_path) can return on a file (lines 53-103).
process_symbol(file) ==
    IF file.readable /\ {"Symbol", "Date", "High", "Low", "Close"} \subseteq file.columns
    THEN {On1(KeepColumns,
          On1(AddDirectionalEfficiency,
          On1(AddOverlapRatioMA,
          On1(AddOverlapRatio,
          On1(AddRangeCompression,
          On1(AddRangeMA,
          On1(AddRange, SortValues(read_csv(file)))))))))}
    ELSE {}

\* ------------------------------------------------------------------- main

\* File names are sequences of characters.
Daily == <<"_", "D", "a", "i", "l", "y">>
DotCsv == <<".", "c", "s", "v">>
CompressionAnalysisCsv ==
    <<"_", "c", "o", "m", "p", "r", "e", "s", "s", "i", "o", "n", "_",
      "a", "n", "a", "l", "y", "s", "i", "s">> \o DotCsv

\* ord() of the characters file names are made of.
Ord(c) ==
    CASE c = "." -> 46 [] c = "A" -> 65 [] c = "B" -> 66 [] c = "D" -> 68
      [] c = "W" -> 87 [] c = "_" -> 95 [] c = "a" -> 97 [] c = "c" -> 99
      [] c = "e" -> 101 [] c = "i" -> 105 [] c = "k" -> 107 [] c = "l" -> 108
      [] c = "s" -> 115 [] c = "v" -> 118 [] c = "y" -> 121

StartsWith(s, prefix) ==
    Len(s) >= Len(prefix) /\ SubSeq(s, 1, Len(prefix)) = prefix

EndsWith(s, suffix) ==
    Len(s) >= Len(suffix) /\ SubSeq(s, Len(s) - Len(suffix) + 1, Len(s)) = suffix

\* DATA_DIR.glob("*_Daily.csv"): the names that end with _Daily.csv.
Glob(dir) == {name \in DOMAIN dir : EndsWith(name, Daily \o DotCsv)}

\* str.replace(old, ""): every non-overlapping occurrence of old, scanning
\* from the left, is removed.
RECURSIVE StrRemove(_, _)
StrRemove(s, old) ==
    IF Len(s) < Len(old) THEN s
    ELSE IF StartsWith(s, old)
    THEN StrRemove(SubSeq(s, Len(old) + 1, Len(s)), old)
    ELSE <<Head(s)>> \o StrRemove(Tail(s), old)

\* Path.stem: the name without its last suffix.
Stem(name) ==
    LET dots == {i \in 2 .. Len(name) : name[i] = "."}
    IN  IF dots = {} \/ name[Len(name)] = "." THEN name
        ELSE SubSeq(name, 1, (CHOOSE i \in dots : \A j \in dots : j <= i) - 1)

\* Path ordering: the names compared character by character.
RECURSIVE StrLess(_, _)
StrLess(a, b) ==
    IF b = <<>> THEN FALSE
    ELSE IF a = <<>> THEN TRUE
    ELSE IF Head(a) = Head(b) THEN StrLess(Tail(a), Tail(b))
    ELSE Ord(Head(a)) < Ord(Head(b))

\* sorted(paths) as a sequence.
RECURSIVE Sorted(_)
Sorted(paths) ==
    IF paths = {} THEN <<>>
    ELSE LET least == CHOOSE x \in paths : \A y \in paths \ {x} : StrLess(x, y)
         IN  <<least>> \o Sorted(paths \ {least})

\* Lines 112 and 115: the output file name of an input file name.
OutputName(csv_name) == StrRemove(Stem(csv_name), Daily) \o CompressionAnalysisCsv

\* DataFrame.to_csv(index=False): a missing cell (nan or pandas.NA) is
\* written as the empty field, a number as its digits.
CsvField(v) == IF IsMissing(v) THEN [k |-> "empty", n |-> 0, d |-> 1] ELSE v

MetricColumns == cols_to_keep \ {"Symbol", "Date"}

to_csv(frame) ==
    [c \in DOMAIN frame |->
        IF c \in MetricColumns
        THEN [i \in Idx(frame[c]) |-> CsvField(frame[c][i])]
        ELSE frame[c]]

\* Line 109 and the head of the loop of line 111.
Start ==
    /\ pc = "start"
    /\ queue' = Sorted(Glob(dataDir))
    /\ pc' = "loop"
    /\ UNCHANGED <<dataDir, outputDir, raised>>

\* One iteration of the loop (lines 112-116) in which process_symbol returns.
ProcessAndWrite ==
    /\ pc = "loop"
    /\ queue # <<>>
    /\ \E results \in process_symbol(dataDir[Head(queue)]) :
          outputDir' =
              [name \in DOMAIN outputDir \cup {OutputName(Head(queue))} |->
                  IF name = OutputName(Head(queue))
                  THEN to_csv(results) ELSE outputDir[name]]
    /\ queue' = Tail(queue)
    /\ UNCHANGED <<dataDir, pc, raised>>

\* One iteration in which process_symbol raises: nothing in main catches the
\* exception, so it leaves the loop and main.
ProcessRaises ==
    /\ pc = "loop"
    /\ queue # <<>>
    /\ \E exception \in process_symbol_raises(dataDir[Head(queue)]) :
          raised' = exception
    /\ pc' = "crashed"
    /\ UNCHANGED <<dataDir, outputDir, queue>>

\* The loop is exhausted and main returns.
Return ==
    /\ pc = "loop"
    /\ queue = <<>>
    /\ pc' = "done"
    /\ UNCHANGED <<dataDir, outputDir, queue, raised>>

Next == Start \/ ProcessAndWrite \/ ProcessRaises \/ Return

\* ----------------------------------------------------------------- inputs

\* Bars the input tables are built from: a well-formed bar, a well-formed
\* bar lying wholly above it, a bar of zero range, and a malformed bar whose
\* High is below its Low.
Wide == [High |-> 32, Low |-> 30, Close |-> 31]
Above == [High |-> 35, Low |-> 33, Close |-> 34]
Flat == [High |-> 31, Low |-> 31, Close |-> 31]
Crossed == [High |-> 30, Low |-> 32, Close |-> 31]
Bars == <<Wide, Above, Flat, Crossed>>
Drifts == {-1, 0, 1}

\* The rows, in date order, of a table of n1 bars `a` followed by n2 bars
\* `b`, every price moving by `drift` from one day to the next.
BarRows(a, n1, b, n2, drift) ==
    [i \in 1 .. (n1 + n2) |->
        LET bar == IF i <= n1 THEN a ELSE b
            move == (i - 1) * drift
        IN  [Symbol |-> "EURUSD", Date |-> i, High |-> bar.High + move,
             Low |-> bar.Low + move, Close |-> bar.Close + move]]

Reverse(s) == [i \in Idx(s) |-> s[Len(s) + 1 - i]]

AllColumns == {"Symbol", "Date", "High", "Low", "Close"}
CsvFile(rows) == [readable |-> TRUE, columns |-> AllColumns, rows |-> rows]

ADailyCsv == <<"A">> \o Daily \o DotCsv
ADailyDailyCsv == <<"A">> \o Daily \o Daily \o DotCsv
BDailyCsv == <<"B">> \o Daily \o DotCsv
AWeeklyCsv == <<"A", "_", "W", "e", "e", "k", "l", "y">> \o DotCsv

InitMain ==
    /\ outputDir = <<>>
    /\ queue = <<>>
    /\ pc = "start"
    /\ raised = "none"

\* Two instrument files with a common history of n1 bars `a`: file A goes on
\* with bars `b` to MaxLen rows; file B goes on with other bars `c`, or ends
\* with the history and is stored oldest row first or newest row first.
Init ==
    /\ \E a \in Idx(Bars), b \in Idx(Bars), c \in Idx(Bars), drift \in Drifts,
          n1 \in 0 .. MaxLen, goesOn \in BOOLEAN, newestFirst \in BOOLEAN :
          /\ goesOn => b < c /\ ~newestFirst
          /\ ~goesOn => c = b
          /\ LET n2 == MaxLen - n1
                 rowsA == BarRows(Bars[a], n1, Bars[b], n2, drift)
                 rowsB == BarRows(Bars[a], n1, Bars[c], IF goesOn THEN n2 ELSE 0, drift)
             IN  dataDir = [name \in {ADailyCsv, BDailyCsv} |->
                              IF name = ADailyCsv THEN CsvFile(rowsA)
                              ELSE IF newestFirst THEN CsvFile(Reverse(rowsB))
                              ELSE CsvFile(rowsB)]
    /\ InitMain

Spec == Init /\ [][Next]_vars

\* The files of the batch specification: an unreadable file, a file without
\* a Close column, and two small well-formed tables.
BatchFiles ==
    {[readable |-> FALSE, columns |-> {}, rows |-> <<>>],
     [readable |-> TRUE, columns |-> AllColumns \ {"Close"},
      rows |-> BarRows(Wide, 1, Above, 1, 0)],
     CsvFile(BarRows(Wide, 1, Above, 1, 0)),
     CsvFile(Reverse(BarRows(Above, 2, Wide, 1, 1)))}

BatchNames == {ADailyCsv, ADailyDailyCsv, BDailyCsv, AWeeklyCsv}

InitBatch ==
    /\ \E names \in SUBSET BatchNames : dataDir \in [names -> BatchFiles]
    /\ InitMain

SpecBatch == InitBatch /\ [][Next]_vars

\* ----------------------------------------------------------------- claims

Done == pc = "done"
Written(name) == OutputName(name) \in DOMAIN outputDir
Output(name) == outputDir[OutputName(name)]
Empty == [k |-> "empty", n |-> 0, d |-> 1]

\* The rows of a file are stored in strictly ascending date order, so that
\* row i of the file is bar i of the sequence the metrics are computed on.
InDateOrder(file) ==
    \A i \in 1 .. (Len(file.rows) - 1) : file.rows[i].Date < file.rows[i + 1].Date

\* The files whose output main has written, with rows in date order.
Computed == {name \in DOMAIN dataDir : Written(name) /\ InDateOrder(dataDir[name])}
Bar(name, i) == dataDir[name].rows[i]
Length(name) == Len(dataDir[name].rows)
RangeOf(bar) == bar.High - bar.Low

InUnit(cell) == cell.k = "num" /\ 0 <= cell.n /\ cell.n <= cell.d

\* C1: a failure while processing one instrument does not halt the batch:
\* once main has ended, every matched file that process_symbol can process
\* has its output file.
C1_FailureDoesNotHaltBatch ==
    pc \in {"done", "crashed"} =>
        \A name \in Glob(dataDir) :
            process_symbol_raises(dataDir[name]) = {} => Written(name)

\* C2: overlap_ratio at position 0 is undefined for every input of at least
\* one bar.
C2_FirstOverlapUndefined ==
    Done => \A name \in Computed :
                Length(name) >= 1 => Output(name).Overlap_Ratio[1] = Empty

\* C3: at every position after the first where both bars are well formed and
\* today's range is not zero, overlap_ratio lies in [0, 1], and it is exactly
\* 0 when the two intervals are disjoint.
Disjoint(today, yesterday) == today.High < yesterday.Low \/ today.Low > yesterday.High

C3_OverlapInUnitInterval ==
    Done => \A name \in Computed : \A i \in 2 .. Length(name) :
        LET today == Bar(name, i)
            yesterday == Bar(name, i - 1)
            cell == Output(name).Overlap_Ratio[i]
        IN  (today.High > today.Low /\ yesterday.High >= yesterday.Low) =>
                /\ InUnit(cell)
                /\ Disjoint(today, yesterday) => cell.n = 0

C3_Witness ==
    /\ Done
    /\ \E name \in Computed : \E i \in 2 .. Length(name) :
          /\ Bar(name, i).High > Bar(name, i).Low
          /\ Bar(name, i - 1).High >= Bar(name, i - 1).Low
          /\ Disjoint(Bar(name, i), Bar(name, i - 1))
          /\ Output(name).Overlap_Ratio[i] = Int2Num(0)
    /\ \E name \in Computed : \E i \in 2 .. Length(name) :
          /\ Bar(name, i).High > Bar(name, i).Low
          /\ Bar(name, i - 1).High >= Bar(name, i - 1).Low
          /\ Output(name).Overlap_Ratio[i] = Num(1, 2)

RECURSIVE RangeSum(_, _, _)
RangeSum(name, from, to) ==
    IF from > to THEN 0
    ELSE RangeSum(name, from, to - 1) + RangeOf(Bar(name, to))

\* The sum of abs(close[j] - close[j-1]) over the steps j = from .. to.
RECURSIVE Movement(_, _, _)
Movement(name, from, to) ==
    IF from > to THEN 0
    ELSE Movement(name, from, to - 1)
         + AbsInt(Bar(name, to).Close - Bar(name, to - 1).Close)

\* The positions of a file in date order at which a divisor is exactly zero,
\* with the column that divides by it.
ZeroDivisors(name) ==
    {<<c, i>> \in {"RangeCompression_5_vs_20", "RangeCompression_10_vs_20"}
                  \X (20 .. Length(name)) : RangeSum(name, i - 19, i) = 0}
    \cup {<<"Overlap_Ratio", i>> : i \in {j \in 1 .. Length(name) : RangeOf(Bar(name, j)) = 0}}
    \cup {<<EfficiencyName(w), i>> :
            <<w, i>> \in {p \in WINDOWS \X (1 .. Length(name)) :
                            p[2] >= p[1] /\ Movement(name, p[2] - p[1] + 2, p[2]) = 0}}

\* C4: wherever a divisor is exactly zero (range_ma[20], today's range,
\* total_movement) the result is the undefined marker, and no error is
\* raised: a file with every column does not make process_symbol raise, and
\* its output is empty at each such position.
C4_ZeroDivisorUndefined ==
    /\ pc = "crashed" =>
          LET file == dataDir[Head(queue)]
          IN  (file.readable /\ AllColumns \subseteq file.columns /\ InDateOrder(file))
                  => ZeroDivisors(Head(queue)) = {}
    /\ Done => \A name \in Computed : \A p \in ZeroDivisors(name) :
                  Output(name)[p[1]][p[2]] = Empty

\* The part of C4 that the code meets: what process_symbol returns is empty
\* at every position whose divisor is zero.
C4_ReturnedUndefined ==
    Done => \A name \in Computed : \A p \in ZeroDivisors(name) :
                Output(name)[p[1]][p[2]] = Empty

C4_ReturnedWitness ==
    /\ Done
    /\ \E name \in Computed :
          /\ \E p \in ZeroDivisors(name) :
                /\ p[1] = "RangeCompression_5_vs_20"
                /\ Output(name).Range_MA_5[p[2]].k = "num"
                /\ Output(name).Range_MA_5[p[2]].n # 0
    /\ \E name \in Computed : \E p \in ZeroDivisors(name) : p[1] = "Overlap_Ratio"
    /\ \E name \in Computed : \E p \in ZeroDivisors(name) :
          p[1] = "DirectionalEfficiency_20"

\* C5: range_ma[w] at position i is the arithmetic mean of range[i-w+1..i]
\* when i >= w-1 and undefined when i < w-1 (positions counted from 1 here:
\* i >= w), also on a sequence shorter than w.
C5_RangeMAIsTrailingMean ==
    Done => \A name \in Computed : \A w \in WINDOWS : \A i \in 1 .. Length(name) :
        Output(name)[RangeMAName(w)][i] =
            IF i >= w THEN Num(RangeSum(name, i - w + 1, i), w) ELSE Empty

C5_Witness ==
    /\ Done
    /\ \E name \in Computed :
          /\ Length(name) >= 20
          /\ Output(name).Range_MA_20[20].k = "num"
          /\ Output(name).Range_MA_20[20] # Output(name).Range_MA_5[20]
          /\ Output(name).Range_MA_5[4] = Empty
    /\ \E name \in Computed :
          /\ Length(name) \in 1 .. 4
          /\ \A w \in WINDOWS : \A i \in 1 .. Length(name) :
                Output(name)[RangeMAName(w)][i] = Empty

\* C6: wherever total_movement over the window is positive,
\* directional_efficiency[w] lies in [0, 1], and it is exactly 1 when all
\* w-1 day-to-day close changes of the window have the same sign.
SameSign(name, from, to) ==
    \/ \A j \in from .. to : Bar(name, j).Close > Bar(name, j - 1).Close
    \/ \A j \in from .. to : Bar(name, j).Close < Bar(name, j - 1).Close

C6_EfficiencyInUnitInterval ==
    Done => \A name \in Computed : \A w \in WINDOWS : \A i \in w .. Length(name) :
        LET cell == Output(name)[EfficiencyName(w)][i]
        IN  Movement(name, i - w + 2, i) > 0 =>
                /\ InUnit(cell)
                /\ SameSign(name, i - w + 2, i) => cell = Int2Num(1)

C6_Witness ==
    /\ Done
    /\ \E name \in Computed : \E i \in 20 .. Length(name) :
          /\ SameSign(name, i - 18, i)
          /\ Output(name).DirectionalEfficiency_20[i] = Int2Num(1)
    /\ \E name \in Computed : \E i \in 20 .. Length(name) :
          LET cell == Output(name).DirectionalEfficiency_20[i]
          IN  cell.k = "num" /\ 0 < cell.n /\ cell.n < cell.d

\* C7: directional_efficiency[w] is undefined at every position i < w-1 and,
\* where total movement is not zero, equals abs(close[i] - close[i-(w-1)])
\* divided by the sum of abs(close[j] - close[j-1]) over exactly the w-1
\* steps of the window (positions counted from 1 here).
C7_EfficiencyFormula ==
    Done => \A name \in Computed : \A w \in WINDOWS : \A i \in 1 .. Length(name) :
        LET cell == Output(name)[EfficiencyName(w)][i]
            total == Movement(name, i - w + 2, i)
        IN  IF i < w THEN cell = Empty
            ELSE total # 0 =>
                    cell = Num(AbsInt(Bar(name, i).Close - Bar(name, i - w + 1).Close),
                               total)

C7_Witness ==
    /\ Done
    /\ \E name \in Computed : \E w \in WINDOWS : \E i \in w .. Length(name) :
          LET cell == Output(name)[EfficiencyName(w)][i]
          IN  /\ cell.k = "num" /\ 0 < cell.n /\ cell.n < cell.d
              /\ Output(name)[EfficiencyName(w)][w - 1] = Empty

\* C8: two date-sorted bar sequences that agree on bars 0..i have the same
\* value in every derived column at every position 0..i.
AgreeUpTo(f, g, i) == \A j \in 1 .. i : Bar(f, j) = Bar(g, j)

C8_Causality ==
    Done => \A f \in Computed : \A g \in Computed \ {f} :
        \A i \in 1 .. Length(f) :
            (i <= Length(g) /\ AgreeUpTo(f, g, i)) =>
                \A c \in MetricColumns : Output(f)[c][i] = Output(g)[c][i]

C8_Witness ==
    /\ Done
    /\ \E f \in Computed : \E g \in Computed \ {f} :
          /\ Length(g) = Length(f)
          /\ AgreeUpTo(f, g, 20)
          /\ Bar(f, Length(f)) # Bar(g, Length(g))
          /\ Output(f).Range_MA_20[20].k = "num"
          /\ Output(f).DirectionalEfficiency_20[20].k = "num"
          /\ Output(f).Overlap_Ratio_MA_10[20].k = "num"
          /\ Output(f).Range_MA_5[Length(f)] # Output(g).Range_MA_5[Length(g)]

\* C9: process_symbol returns as many rows as the input has, and output row
\* i carries the Symbol, Date and metrics of input row i.
CarriesRow(name, i, row) ==
    /\ Output(name).Symbol[i] = row.Symbol
    /\ Output(name).Date[i] = row.Date
    /\ Output(name).Range[i] = Int2Num(RangeOf(row))

C9_RowsPreserved ==
    Done => \A name \in {n \in DOMAIN dataDir : Written(n)} :
        /\ Len(Output(name).Date) = Length(name)
        /\ \A c \in cols_to_keep : Len(Output(name)[c]) = Length(name)
        /\ \A i \in 1 .. Length(name) : CarriesRow(name, i, Bar(name, i))

\* C9 as amended: output row i carries the input row that is i-th in
\* ascending Date order, which is input row i when the file is already
\* sorted by Date.
NthByDate(name, i) ==
    Bar(name, CHOOSE j \in 1 .. Length(name) :
                Cardinality({m \in 1 .. Length(name) :
                                Bar(name, m).Date < Bar(name, j).Date}) = i - 1)

C9_RowsPreservedInDateOrder ==
    Done => \A name \in {n \in DOMAIN dataDir : Written(n)} :
        /\ \A c \in cols_to_keep : Len(Output(name)[c]) = Length(name)
        /\ \A i \in 1 .. Length(name) :
              /\ CarriesRow(name, i, NthByDate(name, i))
              /\ InDateOrder(dataDir[name]) => CarriesRow(name, i, Bar(name, i))

C9_Witness ==
    /\ Done
    /\ \E name \in DOMAIN dataDir :
          /\ Written(name)
          /\ Length(name) >= 2
          /\ ~InDateOrder(dataDir[name])
          /\ Output(name).Date[1] = Bar(name, Length(name)).Date
    /\ \E name \in Computed : Length(name) >= 2

\* C10: distinct input files matched by *_Daily.csv are written to distinct
\* output paths: when the loop has finished there is one output file per
\* matched input file.
C10_OneOutputPerInput ==
    Done => /\ \A f \in Glob(dataDir) : \A g \in Glob(dataDir) \ {f} :
                  OutputName(f) # OutputName(g)
            /\ Cardinality(DOMAIN outputDir) = Cardinality(Glob(dataDir))

====
